---- MODULE Spec2Model ----
(***************************************************************************)
(* Model of pgmpy's ConstraintBasedEstimator (PC algorithm):               *)
(*   estimate_skeleton  - prunes the complete graph with an independence   *)
(*                        oracle (test_conditional_independence);          *)
(*   estimate           - orients the skeleton into a PDAG.                *)
(* One action per loop step of the source; the enumeration order of dict   *)
(* keys, neighbor lists and sets is a nondeterministic choice.             *)
(***************************************************************************)
EXTENDS Integers, FiniteSets, Sequences, TLC

\* ---------------------------------------------------------------- bounds
\* number of variables (columns of the data set) in the general runs
MaxVars == 3
\* p-values are abstracted to the levels 0..MaxLevel
MaxLevel == 2

\* ------------------------------------------------------------ data types
VarNames == <<"A", "B", "C", "D", "E">>
Universe == {VarNames[i] : i \in 1..MaxVars}
NoNode == "none"
Levels == 0..MaxLevel
\* thresholds that separate two levels
Thresholds == 1..MaxLevel
\* the default p_value=0.05 of estimate and estimate_skeleton, as a level: it
\* judges level 0 dependent and every other level independent
DefaultThreshold == 1
\* the p-value when the statistic is undefined; every comparison with it is
\* false (here: it is below every threshold)
NaN == 0 - 1

\* all sequences that enumerate the set S exactly once (a dict/key order)
Perms(S) ==
    {f \in [1..Cardinality(S) -> S] : \A x \in S : \E i \in DOMAIN f : f[i] = x}

\* itertools.combinations(S, k) as the set of its items
combinations(S, k) == {T \in SUBSET S : Cardinality(T) = k}

\* combinations(seq, 2) in the order itertools yields them
RECURSIVE PairsFrom(_, _)
PairsFrom(x, rest) ==
    IF rest = <<>> THEN <<>>
    ELSE <<(<<x, Head(rest)>>)>> \o PairsFrom(x, Tail(rest))

RECURSIVE combinations2(_)
combinations2(seq) ==
    IF seq = <<>> THEN <<>>
    ELSE PairsFrom(Head(seq), Tail(seq)) \o combinations2(Tail(seq))

Range(seq) == {seq[i] : i \in DOMAIN seq}

\* UndirectedGraph(ebunch): the edges as unordered pairs; a graph built from
\* an edge list has the nodes of its edges (a single variable is no node)
UndirectedGraph(ebunch) ==
    [nodes |-> {p[1] : p \in Range(ebunch)} \cup {p[2] : p \in Range(ebunch)},
     edges |-> {{p[1], p[2]} : p \in Range(ebunch)}]

\* only consecutive keys joined: zip(nodes, nodes[1:]) for combinations(nodes, 2)
CompleteGraph_chain(seq) ==
    UndirectedGraph([i \in 1..(Len(seq) - 1) |-> <<seq[i], seq[i + 1]>>])

\* line 203
CompleteGraph(seq) == UndirectedGraph(combinations2(seq))

\* graph.has_edge(u, v)
has_edge(g, u, v) == {u, v} \in g.edges

\* graph.neighbors(n)
neighbors(g, n) == {m \in g.nodes : has_edge(g, n, m) /\ m # n}

\* off by one in the loop condition
AllBelowLimit_late(g, seq, lim) ==
    \A i \in DOMAIN seq : Cardinality(neighbors(g, seq[i])) < lim - 1

\* the argument of `all` at the head of the while loop
AllBelowLimit(g, seq, lim) ==
    \A i \in DOMAIN seq : Cardinality(neighbors(g, seq[i])) < lim

\* ---------------------------------------------------------------- state
VARIABLES
    oracle,            \* test -> the p-values test_conditional_independence may return
    p_value,           \* the threshold
    nodes,             \* self.state_names.keys(), in iteration order
    graph,             \* the undirected graph: [nodes, edges (unordered pairs)]
    lim_neighbors,
    seperating_sets,   \* dict: unordered pair -> separating set
    pc,                \* position in the program
    todo_nodes,        \* rest of `for node in nodes`
    node,
    todo_neighbors,    \* rest of the snapshot graph.neighbors(node)
    neighbor,
    todo_sets,         \* rest of combinations(...)
    passes,            \* number of while-loop passes started (observer)
    pdag,              \* the directed graph of estimate (set of ordered pairs)
    node_pairs,        \* what the iterator combinations(pdag.nodes(), 2) still yields
    progress,
    earlier,           \* return values of an earlier call on the same data set
    data,              \* self.data: the rows of the data set
    state_names,       \* self.state_names: variable -> its states
    call,              \* the arguments X, Y, Zs of test_conditional_independence
    Zs_list,           \* Zs after lines 276-279
    warned,            \* the insufficient-data warning was issued
    XYZ_state_counts,  \* cell -> observed count
    XYZ_expected,      \* cell -> expected count
    observed,          \* the flattened counts that chisquare gets
    expected,
    result             \* what test_conditional_independence returned or raised

skel_vars == <<nodes, lim_neighbors, todo_nodes, node, todo_neighbors, neighbor,
               todo_sets, passes>>
pdag_vars == <<pdag, node_pairs, progress>>
test_vars == <<data, state_names, call, Zs_list, warned, XYZ_state_counts, XYZ_expected,
               observed, expected, result>>
vars == <<oracle, p_value, graph, seperating_sets, pc, skel_vars, pdag_vars,
          earlier, test_vars>>

\* the tests (X, Y, Zs) estimate_skeleton can ask about the variables S
Tests(S) ==
    {t \in S \X S \X SUBSET S : t[1] # t[2] /\ t[1] \notin t[3] /\ t[2] \notin t[3]}

\* an oracle that may answer anything: the data set is arbitrary.  A call of
\* estimate_skeleton asks a test (X, Y, Zs) at most once (in the pass for the
\* size of Zs, at node X), so answers drawn call by call are those of some
\* assignment of p-values to tests
AnyOracle(S) == [t \in Tests(S) |-> Levels \cup {NaN}]

\* ------------------------------------------- test_conditional_independence
\* the largest number of rows of a data set, the longest list Zs
MaxRows == 2
MaxZs == 2

\* the columns and the values of the data sets of the test
TestVars == {"X", "Y", "Z"}
States == {0, 1}

\* what a call ends with: a returned p-value or a raised exception
NoResult == [kind |-> "none", p |-> 0, error |-> ""]
Returned(p) == [kind |-> "returned", p |-> p, error |-> ""]
Raised(error) == [kind |-> "raised", p |-> 0, error |-> error]

\* sum of f over the set S
RECURSIVE Sum(_, _)
Sum(f, S) ==
    IF S = {} THEN 0
    ELSE LET s == CHOOSE s \in S : TRUE IN f[s] + Sum(f, S \ {s})

\* lines 276-279: a list, set or tuple becomes a list, anything else a list
\* of one element
list(Zs) == IF Zs.kind = "list" THEN Zs.val ELSE <<Zs.val>>

\* what the code never tests: Zs holds X or Y, or a variable twice
Malformed(X, Y, Zs) ==
    \/ \E k \in DOMAIN Zs : Zs[k] \in {X, Y}
    \/ \E k, l \in DOMAIN Zs : k # l /\ Zs[k] = Zs[l]

\* lines 284-286
RECURSIVE prod(_)
prod(seq) == IF seq = <<>> THEN 1 ELSE Head(seq) * prod(Tail(seq))

num_params(names, X, Y, Zs) ==
    (Cardinality(names[X]) - 1) * (Cardinality(names[Y]) - 1)
        * prod([k \in DOMAIN Zs |-> Cardinality(names[Zs[k]])])

\* line 297: the combinations of states of the variables of Zs
from_product(names, Zs) ==
    {z \in [DOMAIN Zs -> States] : \A k \in DOMAIN Zs : z[k] \in names[Zs[k]]}

\* lines 296-299: the cells <<x, y, z>> of the reindexed table
Cells(names, X, Y, Zs) == names[X] \X names[Y] \X from_product(names, Zs)

\* lines 293-299: the number of rows of each cell, 0 for a cell without rows
crosstab(d, names, X, Y, Zs) ==
    [c \in Cells(names, X, Y, Zs) |->
        Cardinality({i \in DOMAIN d :
            /\ d[i][X] = c[1]
            /\ d[i][Y] = c[2]
            /\ \A k \in DOMAIN Zs : d[i][Zs[k]] = c[3][k]})]

\* lines 304/307, 305/308, 309: the marginal counts
XZ_state_counts(counts, x, z) ==
    Sum(counts, {c \in DOMAIN counts : c[1] = x /\ c[3] = z})
YZ_state_counts(counts, y, z) ==
    Sum(counts, {c \in DOMAIN counts : c[2] = y /\ c[3] = z})
Z_state_counts(counts, z) ==
    Sum(counts, {c \in DOMAIN counts : c[3] = z})

\* lines 311-322: XZ * YZ / Z for every cell, as the fraction num / den;
\* 0 * 0 / 0 (den = 0) is NaN
Expected(counts) ==
    [c \in DOMAIN counts |->
        [num |-> XZ_state_counts(counts, c[1], c[3])
                    * YZ_state_counts(counts, c[2], c[3]),
         den |-> Z_state_counts(counts, c[3])]]

IsNaN(e) == e.den = 0

\* e == 0 of line 328: false for NaN
IsZero(e) == e.den # 0 /\ e.num = 0

\* line 328: the cells kept for chisquare
Retained(exp) == {c \in DOMAIN exp : ~IsZero(exp[c])}

\* line 330, the p-value of scipy's chisquare as a level: undefined with an
\* undefined expected count or with no degree of freedom, 1 when every
\* observed count is the expected one, below 1 otherwise
chisquare(obs, exp) ==
    IF \E c \in DOMAIN exp : IsNaN(exp[c]) THEN {NaN}
    ELSE IF Cardinality(DOMAIN obs) < 2 THEN {NaN}
    ELSE IF \A c \in DOMAIN obs : obs[c] * exp[c].den = exp[c].num THEN {MaxLevel}
    ELSE Levels

\* no call of test_conditional_independence is modelled step by step
TestIdle ==
    /\ data = <<>>
    /\ state_names = <<>>
    /\ call = <<>>
    /\ Zs_list = <<>>
    /\ warned = FALSE
    /\ XYZ_state_counts = <<>>
    /\ XYZ_expected = <<>>
    /\ observed = <<>>
    /\ expected = <<>>
    /\ result = NoResult

est_vars == <<oracle, p_value, graph, seperating_sets, skel_vars, pdag_vars, earlier>>

\* the data sets: from 1 to MaxRows rows over the columns TestVars
Rows == [TestVars -> States]
DataSets == UNION {[1..n -> Rows] : n \in 1..MaxRows}

\* the values Zs can be called with: a list of at most MaxZs names, or a name
Lists == UNION {[1..n -> TestVars] : n \in 0..MaxZs}
ZsArgs == {[kind |-> "list", val |-> l] : l \in Lists}
              \cup {[kind |-> "name", val |-> v] : v \in TestVars}

\* a data set, the states of its columns (those that occur and maybe more),
\* and a call test_conditional_independence(X, Y, Zs) with X # Y
InitTest ==
    /\ pc = "tci"
    /\ data \in DataSets
    /\ state_names \in [TestVars -> SUBSET States \ {{}}]
    /\ \A i \in DOMAIN data : \A v \in TestVars : data[i][v] \in state_names[v]
    /\ call \in {c \in [X : TestVars, Y : TestVars, Zs : ZsArgs] : c.X # c.Y}
    /\ Zs_list = <<>>
    /\ warned = FALSE
    /\ XYZ_state_counts = <<>>
    /\ XYZ_expected = <<>>
    /\ observed = <<>>
    /\ expected = <<>>
    /\ result = NoResult
    /\ oracle = <<>>
    /\ p_value = DefaultThreshold
    /\ nodes = <<>>
    /\ graph = [nodes |-> {}, edges |-> {}]
    /\ lim_neighbors = 0
    /\ seperating_sets = << >>
    /\ todo_nodes = <<>>
    /\ node = NoNode
    /\ todo_neighbors = {}
    /\ neighbor = NoNode
    /\ todo_sets = {}
    /\ passes = 0
    /\ pdag = {}
    /\ node_pairs = <<>>
    /\ progress = FALSE
    /\ earlier = <<>>

\* lines 276-289: Zs as a list, and the warning; Zs is not validated
TciArgs ==
    /\ pc = "tci"
    /\ Zs_list' = list(call.Zs)
    /\ warned' = (Len(data) < num_params(state_names, call.X, call.Y, Zs_list'))
    /\ pc' = "crosstab"
    /\ UNCHANGED <<est_vars, data, state_names, call, XYZ_state_counts,
                   XYZ_expected, observed, expected, result>>

\* lines 293-299.  With a column named twice (Zs holds X, Y or a variable
\* twice) pandas either builds the table all the same or raises from within
Crosstab ==
    /\ pc = "crosstab"
    /\ \/ /\ XYZ_state_counts' = crosstab(data, state_names, call.X, call.Y, Zs_list)
          /\ pc' = "expected"
          /\ UNCHANGED result
       \/ /\ Malformed(call.X, call.Y, Zs_list)
          /\ result' = Raised("pandas")
          /\ pc' = "tci_raised"
          /\ UNCHANGED XYZ_state_counts
    /\ UNCHANGED <<est_vars, data, state_names, call, Zs_list, warned,
                   XYZ_expected, observed, expected>>

\* lines 303-322
ExpectedTable ==
    /\ pc = "expected"
    /\ XYZ_expected' = Expected(XYZ_state_counts)
    /\ pc' = "flatten"
    /\ UNCHANGED <<est_vars, data, state_names, call, Zs_list, warned,
                   XYZ_state_counts, observed, expected, result>>

\* lines 324-328: the cells with an expected count of 0 dropped; with no
\* cell left the unpacking of zip(*()) raises
Flatten ==
    /\ pc = "flatten"
    /\ LET kept == Retained(XYZ_expected)
       IN  IF kept = {}
           THEN /\ result' = Raised("ValueError")
                /\ pc' = "tci_raised"
                /\ UNCHANGED <<observed, expected>>
           ELSE /\ observed' = [c \in kept |-> XYZ_state_counts[c]]
                /\ expected' = [c \in kept |-> XYZ_expected[c]]
                /\ pc' = "chisquare"
                /\ UNCHANGED result
    /\ UNCHANGED <<est_vars, data, state_names, call, Zs_list, warned,
                   XYZ_state_counts, XYZ_expected>>

\* lines 330-332
Chisquare ==
    /\ pc = "chisquare"
    /\ \E p \in chisquare(observed, expected) : result' = Returned(p)
    /\ pc' = "tci_return"
    /\ UNCHANGED <<est_vars, data, state_names, call, Zs_list, warned,
                   XYZ_state_counts, XYZ_expected, observed, expected>>

NextTest == TciArgs \/ Crosstab \/ ExpectedTable \/ Flatten \/ Chisquare


\* ------------------------------------------------------- estimate_skeleton
InitWith(V, orc, T) ==
    /\ oracle = orc
    /\ p_value \in T
    /\ nodes \in Perms(V)
    /\ graph = CompleteGraph(nodes)
    /\ lim_neighbors = 0
    /\ seperating_sets = << >>
    /\ pc = "while"
    /\ todo_nodes = <<>>
    /\ node = NoNode
    /\ todo_neighbors = {}
    /\ neighbor = NoNode
    /\ todo_sets = {}
    /\ passes = 0
    /\ pdag = {}
    /\ node_pairs = <<>>
    /\ progress = FALSE
    /\ earlier = <<>>
    /\ TestIdle

\* any data over any of the variables, the default threshold: with an oracle
\* that may answer anything, every threshold gives the same runs
Init == \E V \in SUBSET Universe : InitWith(V, AnyOracle(V), {DefaultThreshold})

\* the four variables of the example of estimate (lines 84-86), any data
DocVars == {"A", "B", "C", "D"}
InitDocVars == InitWith(DocVars, AnyOracle(DocVars), {DefaultThreshold})

\* an oracle answer that every threshold judges independent / dependent
Indep == {MaxLevel}
Dep == {0}

\* C = f(A, B) with A, B independent (lines 177-187 cut down to A, B, C):
\* A _|_ B | (), every test of a pair with C dependent
OracleABC ==
    [t \in Tests({"A", "B", "C"}) |->
        IF {t[1], t[2]} = {"A", "B"}
        THEN (IF t[3] = {} THEN Indep ELSE Levels)
        ELSE Dep]

\* X += Z, Y += Z (lines 189-198): X _|_ Y | Z only
OracleXYZ ==
    [t \in Tests({"X", "Y", "Z"}) |->
        IF {t[1], t[2]} = {"X", "Y"} /\ t[3] = {"Z"} THEN Indep ELSE Dep]

\* C = A - B, D += A (lines 84-90): A _|_ B | (), B _|_ D | (), C _|_ D | A
OracleABCD ==
    [t \in Tests(DocVars) |->
        IF \/ {t[1], t[2]} = {"A", "B"} /\ t[3] = {}
           \/ {t[1], t[2]} = {"B", "D"} /\ t[3] = {}
           \/ {t[1], t[2]} = {"C", "D"} /\ t[3] = {"A"}
        THEN Indep ELSE Dep]

InitExamples ==
    \/ InitWith({"A", "B", "C"}, OracleABC, Thresholds)
    \/ InitWith({"X", "Y", "Z"}, OracleXYZ, Thresholds)
    \/ InitWith(DocVars, OracleABCD, Thresholds)

\* one data set, two thresholds: the chi-square statistic does not depend on
\* which variable is X and which is Y, and has one value for each test
FixedOracles(V) ==
    {o \in [Tests(V) -> {{l} : l \in Levels}] :
        \A t \in Tests(V) : o[t] = o[<<t[2], t[1], t[3]>>]}

InitThresholds ==
    \E V \in SUBSET {"X", "Y", "Z"} : \E o \in FixedOracles(V) :
        InitWith(V, o, Thresholds)

\* line 206: the loop condition (graph.neighbors raises for a variable that
\* is no node of the graph); line 219: return
While ==
    /\ pc = "while"
    /\ IF Range(nodes) \subseteq graph.nodes
       THEN IF ~AllBelowLimit(graph, nodes, lim_neighbors)
            THEN /\ pc' = "for_node"
                 /\ todo_nodes' = nodes
                 /\ passes' = passes + 1
            ELSE /\ pc' = "return"
                 /\ UNCHANGED <<todo_nodes, passes>>
       ELSE /\ pc' = "raised"
            /\ UNCHANGED <<todo_nodes, passes>>
    /\ UNCHANGED <<test_vars, oracle, p_value, nodes, graph, lim_neighbors, seperating_sets,
                   node, todo_neighbors, neighbor, todo_sets, pdag_vars, earlier>>

\* line 207 (next node, snapshot of its neighbors) and line 217
ForNode ==
    /\ pc = "for_node"
    /\ IF todo_nodes # <<>>
       THEN /\ node' = Head(todo_nodes)
            /\ todo_nodes' = Tail(todo_nodes)
            /\ todo_neighbors' = neighbors(graph, Head(todo_nodes))
            /\ pc' = "for_neighbor"
            /\ UNCHANGED lim_neighbors
       ELSE /\ lim_neighbors' = lim_neighbors + 1
            /\ pc' = "while"
            /\ UNCHANGED <<node, todo_nodes, todo_neighbors>>
    /\ UNCHANGED <<test_vars, oracle, p_value, nodes, graph, seperating_sets, neighbor,
                   todo_sets, passes, pdag_vars, earlier>>

\* the neighbor itself not taken out
candidates_with_neighbor(g, n, m, k) == combinations(neighbors(g, n), k)

\* line 211: the candidate separating sets of (node, neighbor), of size k
candidates(g, n, m, k) == combinations(neighbors(g, n) \ {m}, k)

\* line 208 (next neighbor of the snapshot) and line 211 (its candidate
\* sets; with none the body of the inner loop is not entered).  A loop
\* variable that is not read again before it is reassigned is cleared.
ForNeighbor ==
    /\ pc = "for_neighbor"
    /\ IF todo_neighbors # {}
       THEN \E n \in todo_neighbors :
                LET sets == candidates(graph, node, n, lim_neighbors)
                IN  /\ todo_neighbors' = todo_neighbors \ {n}
                    /\ todo_sets' = sets
                    /\ neighbor' = IF sets = {} THEN NoNode ELSE n
                    /\ pc' = IF sets = {} THEN "for_neighbor" ELSE "for_set"
                    /\ UNCHANGED node
       ELSE /\ node' = NoNode
            /\ pc' = "for_node"
            /\ UNCHANGED <<todo_neighbors, todo_sets, neighbor>>
    /\ UNCHANGED <<test_vars, oracle, p_value, nodes, graph, lim_neighbors, seperating_sets,
                   todo_nodes, passes, pdag_vars, earlier>>

\* the boundary value judged dependent
Independent_gt(p, threshold) == p > threshold

\* the comparison turned round: small p-values judged independent
Independent_lt(p, threshold) == p < threshold

\* the comparison turned round, boundary included
Independent_le(p, threshold) == p <= threshold

\* the comparison of line 212
Independent(p, threshold) == p >= threshold

\* line 214: seperating_sets[key] = value
SetItem(d, key, value) ==
    [e \in DOMAIN d \cup {key} |-> IF e = key THEN value ELSE d[e]]

\* the removal forgotten
remove_edge_skipped(g, u, v) == g

\* every edge of u removed (remove_node's effect on the edges)
remove_edge_all(g, u, v) == [g EXCEPT !.edges = {e \in @ : u \notin e}]

\* line 215: graph.remove_edge(u, v)
remove_edge(g, u, v) == [g EXCEPT !.edges = @ \ {{u, v}}]

\* lines 211-216: one oracle call, and the removal when it succeeds; the
\* inner loop ends with the break or with its last candidate
TestSet ==
    /\ pc = "for_set"
    /\ \E seperating_set \in todo_sets :
       \E p \in oracle[<<node, neighbor, seperating_set>>] :
           IF Independent(p, p_value)
           THEN /\ seperating_sets' = SetItem(seperating_sets, {node, neighbor},
                                                seperating_set)
                /\ graph' = remove_edge(graph, node, neighbor)
                /\ todo_sets' = {}
                /\ neighbor' = NoNode
                /\ pc' = "for_neighbor"
           ELSE /\ todo_sets' = todo_sets \ {seperating_set}
                /\ neighbor' = IF todo_sets' = {} THEN NoNode ELSE neighbor
                /\ pc' = IF todo_sets' = {} THEN "for_neighbor" ELSE "for_set"
                /\ UNCHANGED <<seperating_sets, graph>>
    /\ UNCHANGED <<test_vars, oracle, p_value, nodes, lim_neighbors, todo_nodes, node,
                   todo_neighbors, passes, pdag_vars, earlier>>

\* ---------------------------------------------------------------- estimate
\* skel.to_directed(): both directions of every edge
to_directed(g) == {e \in g.nodes \X g.nodes : has_edge(g, e[1], e[2]) /\ e[1] # e[2]}

\* pdag.remove_edges_from(ebunch): edges that are absent are skipped silently
remove_edges_from(pd, ebunch) == pd \ ebunch

successors(pd, n) == {m \in {e[2] : e \in pd} : <<n, m>> \in pd}
predecessors(pd, n) == {m \in {e[1] : e \in pd} : <<m, n>> \in pd}

\* lines 219 and 93: the skeleton and the separating sets are returned to
\* estimate; the locals of estimate_skeleton are gone
Return ==
    /\ pc = "return"
    /\ pc' = "skeleton"
    /\ nodes' = <<>>
    /\ lim_neighbors' = 0
    /\ passes' = 0
    /\ UNCHANGED <<test_vars, oracle, p_value, graph, seperating_sets, todo_nodes, node,
                   todo_neighbors, neighbor, todo_sets, pdag_vars, earlier>>

\* lines 94-95: the PDAG, and the pair iterator, created once; pdag.nodes()
\* enumerates the nodes in some order
ToDirected ==
    /\ pc = "skeleton"
    /\ pdag' = to_directed(graph)
    /\ \E order \in Perms(graph.nodes) : node_pairs' = combinations2(order)
    /\ pc' = "colliders"
    /\ UNCHANGED <<test_vars, oracle, p_value, graph, seperating_sets, skel_vars, progress,
                   earlier>>

\* line 101: the candidates Z of the pair (X, Y)
ColliderCandidates(skel, X, Y) == neighbors(skel, X) \cap neighbors(skel, X)

\* lines 100-103 for one pair: the directions to remove
ColliderRemovals(skel, seps, X, Y) ==
    IF has_edge(skel, X, Y) THEN {}
    ELSE UNION {{<<Z, X>>, <<Z, Y>>} :
                    Z \in {W \in ColliderCandidates(skel, X, Y) : W \notin seps[{X, Y}]}}

\* lines 99-103: the pair loop, one pair per step; line 105 when it ends
Colliders ==
    /\ pc = "colliders"
    /\ IF node_pairs # <<>>
       THEN LET X == Head(node_pairs)[1]
                Y == Head(node_pairs)[2]
            IN  /\ node_pairs' = Tail(node_pairs)
                /\ IF ~has_edge(graph, X, Y) /\ ColliderCandidates(graph, X, Y) # {}
                      /\ {X, Y} \notin DOMAIN seperating_sets
                   THEN /\ pc' = "raised"      \* KeyError at line 102
                        /\ UNCHANGED <<pdag, progress>>
                   ELSE /\ pdag' = remove_edges_from(pdag,
                                      ColliderRemovals(graph, seperating_sets, X, Y))
                        /\ UNCHANGED <<pc, progress>>
       ELSE /\ progress' = TRUE
            /\ pc' = "orient"
            /\ UNCHANGED <<pdag, node_pairs>>
    /\ UNCHANGED <<test_vars, oracle, p_value, graph, seperating_sets, skel_vars, earlier>>

\* the one-way successors of n, and the both-way neighbors of n
OneWayTo(pd, n) == successors(pd, n) \ predecessors(pd, n)
BothWay(pd, n) == successors(pd, n) \cap predecessors(pd, n)

\* line 111-112: the Z of rule 1 for the pair (X, Y)
Rule1Matches(pd, X, Y) == OneWayTo(pd, X) \cap BothWay(pd, Y)

\* lines 109-133 over the pairs the iterator still yields: the first loop
\* that gets a pair with a match calls pdag.remove, which DiGraph does not
\* have; a loop consumes the iterator, so the later loops get nothing
RulesRaise(pd, pairs) ==
    \E i \in DOMAIN pairs : Rule1Matches(pd, pairs[i][1], pairs[i][2]) # {}

\* a pass that removed nothing counted as progress
made_progress_ge(num_edges, pd) == num_edges >= Cardinality(pd)

\* line 135: progress = num_edges > len(pdag.edges())
made_progress(num_edges, pd) == num_edges > Cardinality(pd)

\* lines 106-135: one pass of the while loop (counted in passes)
OrientPass ==
    /\ pc = "orient"
    /\ IF progress
       THEN IF RulesRaise(pdag, node_pairs)
            THEN /\ pc' = "raised"
                 /\ UNCHANGED <<pdag, node_pairs, progress, passes>>
            ELSE LET num_edges == Cardinality(pdag)
                 IN  /\ node_pairs' = <<>>
                     /\ pdag' = pdag
                     /\ progress' = made_progress(num_edges, pdag')
                     /\ passes' = passes + 1
                     /\ pc' = "orient"
       ELSE /\ pc' = "done"              \* line 137
            /\ UNCHANGED <<pdag, node_pairs, progress, passes>>
    /\ UNCHANGED <<test_vars, oracle, p_value, graph, seperating_sets, nodes,
                   lim_neighbors, todo_nodes, node, todo_neighbors, neighbor,
                   todo_sets, earlier>>

Next == While \/ ForNode \/ ForNeighbor \/ TestSet \/ Return \/ ToDirected
        \/ Colliders \/ OrientPass

\* estimate called once more on the same skeleton (another enumeration order)
EstimateAgain ==
    /\ pc = "done"
    /\ earlier = <<>>
    /\ earlier' = <<[pdag |-> pdag]>>
    /\ pdag' = to_directed(graph)
    /\ \E order \in Perms(graph.nodes) : node_pairs' = combinations2(order)
    /\ pc' = "colliders"
    /\ UNCHANGED <<test_vars, oracle, p_value, graph, seperating_sets, skel_vars, progress>>

\* estimate_skeleton called once more on the same data with a threshold that
\* is not higher
SkeletonAgain ==
    /\ pc = "return"
    /\ earlier = <<>>
    /\ earlier' = <<[p_value |-> p_value, graph |-> graph,
                     seperating_sets |-> seperating_sets]>>
    /\ \E t \in Thresholds : t <= p_value /\ p_value' = t
    /\ graph' = CompleteGraph(nodes)
    /\ lim_neighbors' = 0
    /\ seperating_sets' = << >>
    /\ passes' = 0
    /\ pc' = "while"
    /\ UNCHANGED <<test_vars, oracle, nodes, todo_nodes, node, todo_neighbors, neighbor,
                   todo_sets, pdag_vars>>

NextTwice == Next \/ EstimateAgain

NextThresholds == While \/ ForNode \/ ForNeighbor \/ TestSet \/ SkeletonAgain

\* estimate_skeleton alone
NextSkeleton == While \/ ForNode \/ ForNeighbor \/ TestSet

Spec == Init /\ [][Next]_vars
SpecDocVars == InitDocVars /\ [][Next]_vars
SpecExamples == InitExamples /\ [][Next]_vars
SpecTwice == Init /\ [][NextTwice]_vars
SpecThresholds == InitThresholds /\ [][NextThresholds]_vars
SpecSkeleton == InitThresholds /\ [][NextSkeleton]_vars
SpecTest == InitTest /\ [][NextTest]_vars

\* ------------------------------------------------------------------ claims
AllPairs(S) == {{x, y} : x, y \in S} \ {{x} : x \in S}
SkeletonPcs == {"while", "for_node", "for_neighbor", "for_set"}

\* C1: estimate_skeleton starts from the complete graph over the variables
\* and no step ever adds an edge: the edge set after a step (hence after the
\* pass for size k+1) is a subset of the edge set before it.
C1_EdgesOnlyShrink ==
    /\ graph.edges = AllPairs(Range(nodes))
    /\ [][graph'.edges \subseteq graph.edges]_vars

C1_Witness ==
    /\ pc = "return"
    /\ passes >= 2
    /\ graph.edges # {}
    /\ graph.edges # AllPairs(Range(nodes))

\* C2: at every step of estimate_skeleton and at return, the pairs with a
\* separating set are exactly the non-adjacent pairs, and an entry is never
\* overwritten nor deleted.
SepsetIffNonAdjacent ==
    DOMAIN seperating_sets = AllPairs(graph.nodes) \ graph.edges

SepsetsKept ==
    \A e \in DOMAIN seperating_sets :
        e \in DOMAIN seperating_sets' /\ seperating_sets'[e] = seperating_sets[e]

C2_SepsetsExactAndImmutable ==
    /\ []SepsetIffNonAdjacent
    /\ [][SepsetsKept]_vars

C2_Witness ==
    /\ pc = "return"
    /\ graph.edges # {}
    /\ \E e \in DOMAIN seperating_sets : seperating_sets[e] # {}

\* C3: the outer loop of estimate_skeleton terminates after at most |V| passes.
\* Rank is a variant of the loop nest: a natural number that every step of
\* estimate_skeleton decreases.
K3 == 2 ^ Len(nodes) + 3
K2 == (Len(nodes) + 1) * K3 + 2
K1 == (Len(nodes) + 2) * K2 + 2
Rank ==
    LET base == (Len(nodes) + 1 - lim_neighbors) * K1
        inNode == base + Len(todo_nodes) * K2 + 1 + Cardinality(todo_neighbors) * K3
    IN  CASE pc = "while" -> base + K1 - 1
          [] pc = "for_node" -> base + Len(todo_nodes) * K2
          [] pc = "for_neighbor" -> inNode
          [] pc = "for_set" -> inNode + 1 + Cardinality(todo_sets)
          [] OTHER -> 0

RankDecreases ==
    pc \in SkeletonPcs => (Rank' < Rank /\ Rank' >= 0 /\ passes' <= Len(nodes))

C3_TerminatesWithinVPasses == [][RankDecreases]_vars

C3_Witness ==
    /\ pc = "return"
    /\ Len(nodes) = MaxVars
    /\ passes = Len(nodes)

\* C4: in the PDAG returned by estimate every unshielded triple X - Z - Y whose
\* separating set for {X, Y} does not contain Z is the collider X -> Z <- Y:
\* X -> Z and Y -> Z are present, Z -> X and Z -> Y are not.
UnshieldedCollider(X, Z, Y) ==
    /\ X # Y
    /\ has_edge(graph, X, Z)
    /\ has_edge(graph, Z, Y)
    /\ ~has_edge(graph, X, Y)
    /\ Z \notin seperating_sets[{X, Y}]

C4_CollidersOriented ==
    pc = "done" =>
        \A X, Z, Y \in graph.nodes :
            UnshieldedCollider(X, Z, Y) =>
                /\ <<X, Z>> \in pdag
                /\ <<Y, Z>> \in pdag
                /\ <<Z, X>> \notin pdag
                /\ <<Z, Y>> \notin pdag

\* C5: in the PDAG returned by estimate none of the three orientation rules
\* is applicable.
OneWay(pd, a, b) == <<a, b>> \in pd /\ <<b, a>> \notin pd
Bidirected(pd, a, b) == <<a, b>> \in pd /\ <<b, a>> \in pd
Adjacent(pd, a, b) == <<a, b>> \in pd \/ <<b, a>> \in pd
PdagNodes(pd) == {e[1] : e \in pd} \cup {e[2] : e \in pd}

\* the nodes reached from the set S along one-way edges, in at most n steps
RECURSIVE ReachOneWay(_, _, _)
ReachOneWay(pd, S, n) ==
    IF n = 0 THEN S
    ELSE ReachOneWay(pd, S \cup {b \in PdagNodes(pd) : \E a \in S : OneWay(pd, a, b)},
                     n - 1)

Rule1Applicable(pd) ==
    \E X, Z, Y \in PdagNodes(pd) :
        X # Y /\ OneWay(pd, X, Z) /\ Bidirected(pd, Z, Y) /\ ~Adjacent(pd, X, Y)

Rule2Applicable(pd) ==
    \E X, Y \in PdagNodes(pd) :
        /\ Bidirected(pd, X, Y)
        /\ Y \in ReachOneWay(pd, {b \in PdagNodes(pd) : OneWay(pd, X, b)},
                              Cardinality(PdagNodes(pd)))

Rule3Applicable(pd) ==
    \E X, Y, Z, W \in PdagNodes(pd) :
        /\ X # Y
        /\ Bidirected(pd, X, Z) /\ Bidirected(pd, Y, Z)
        /\ OneWay(pd, X, W) /\ OneWay(pd, Y, W)
        /\ Bidirected(pd, Z, W)

C5_NoRuleApplicable ==
    pc = "done" =>
        ~Rule1Applicable(pdag) /\ ~Rule2Applicable(pdag) /\ ~Rule3Applicable(pdag)

\* C6: estimate run twice on the same skeleton and separating sets, with any
\* two enumeration orders of the nodes, returns the same PDAG.
C6_OrderIndependent ==
    (pc = "done" /\ earlier # <<>>) => pdag = earlier[1].pdag

\* C7: with A _|_ B | () and every test of a pair with C dependent,
\* estimate_skeleton returns the edges A - C, B - C and the separating sets
\* {A, B}: (), for every iteration order.
C7_SkeletonABC ==
    (oracle = OracleABC /\ pc = "return") =>
        /\ graph.edges = {{"A", "C"}, {"B", "C"}}
        /\ DOMAIN seperating_sets = {{"A", "B"}}
        /\ seperating_sets[{"A", "B"}] = {}

C7_Witness ==
    /\ oracle = OracleABC
    /\ pc = "return"
    /\ nodes[1] = "C"
    /\ {"A", "B"} \in DOMAIN seperating_sets

\* C8: with X, Y dependent given () and independent given Z, and X - Z, Y - Z
\* always dependent, estimate_skeleton returns the edges X - Z, Y - Z and the
\* separating sets {X, Y}: (Z), for every iteration order.
C8_SkeletonXYZ ==
    (oracle = OracleXYZ /\ pc = "return") =>
        /\ graph.edges = {{"X", "Z"}, {"Y", "Z"}}
        /\ DOMAIN seperating_sets = {{"X", "Y"}}
        /\ seperating_sets[{"X", "Y"}] = {"Z"}

C8_Witness ==
    /\ oracle = OracleXYZ
    /\ pc = "return"
    /\ nodes[1] = "Z"
    /\ {"X", "Y"} \in DOMAIN seperating_sets

\* C9: for the example of the docstring of estimate the returned PDAG has
\* exactly the edges A -> C, B -> C, A -> D, D -> A.
C9_DocstringPdag ==
    (oracle = OracleABCD /\ pc = "done") =>
        pdag = {<<"A", "C">>, <<"B", "C">>, <<"A", "D">>, <<"D", "A">>}

\* C10 as stated: with the same oracle, the skeleton for the lower threshold
\* has every edge of the skeleton for the higher threshold.
C10_LowerThresholdKeepsEdges ==
    (pc = "return" /\ earlier # <<>>) => earlier[1].graph.edges \subseteq graph.edges

\* C10 amended: with the same oracle, every pair that the call with the
\* higher threshold separates by the empty set (in the pass for size 0) is
\* separated by the empty set by the call with the lower threshold as well.
EmptySeparated(seps) == {e \in DOMAIN seps : seps[e] = {}}

C10_LowerThresholdPrunesFirstPass ==
    (pc = "return" /\ earlier # <<>>) =>
        EmptySeparated(earlier[1].seperating_sets) \subseteq
            EmptySeparated(seperating_sets)

C10_Witness ==
    /\ pc = "return"
    /\ earlier # <<>>
    /\ p_value < earlier[1].p_value
    /\ EmptySeparated(earlier[1].seperating_sets) # {}
    /\ EmptySeparated(seperating_sets) # EmptySeparated(earlier[1].seperating_sets)

\* C11: the one-way edges of the PDAG returned by estimate form no directed
\* cycle: no node is reached from itself along one-way edges.
OneWayCycle(pd) ==
    \E a \in PdagNodes(pd) :
        a \in ReachOneWay(pd, {b \in PdagNodes(pd) : OneWay(pd, a, b)},
                          Cardinality(PdagNodes(pd)))

C11_OneWayAcyclic == pc = "done" => ~OneWayCycle(pdag)

\* C12: a call test_conditional_independence(X, Y, Zs) whose Zs holds X or Y,
\* or a variable twice, ends in an invalid-argument error: it gets no further
\* than the handling of its arguments and never returns a p-value.
C12_MalformedRejected ==
    (pc # "tci" /\ call # <<>> /\ Malformed(call.X, call.Y, list(call.Zs))) =>
        /\ pc = "tci_raised"
        /\ result = Raised("invalid argument")

\* C13 (the part about test_conditional_independence): when fewer than 2
\* cells are left after the cells with an expected count of 0 are dropped,
\* a well-formed call ends with a distinct outcome "untestable", which is
\* neither a returned value nor an exception.
C13_UntestableReported ==
    (/\ pc \in {"tci_return", "tci_raised"}
     /\ ~Malformed(call.X, call.Y, Zs_list)
     /\ Cardinality(Retained(XYZ_expected)) < 2) =>
        result.kind = "untestable"

\* C14: whenever estimate_skeleton removes an edge, it is the edge
\* {node, neighbor} of the test just made, in the pass for size
\* k = lim_neighbors; the oracle's answer for the recorded separating set is
\* >= the threshold; that set has exactly k elements, each a neighbor of node
\* at that moment other than neighbor; the inner loop ends (no further subset
\* is tested for the pair, then or later: a pair under test is adjacent).
RemovalByTest ==
    (graph.edges \ graph'.edges # {}) =>
        /\ pc = "for_set"
        /\ graph.edges \ graph'.edges = {{node, neighbor}}
        /\ {node, neighbor} \in DOMAIN seperating_sets'
        /\ LET seperating_set == seperating_sets'[{node, neighbor}]
           IN  /\ \A p \in oracle[<<node, neighbor, seperating_set>>] : p >= p_value
               /\ Cardinality(seperating_set) = lim_neighbors
               /\ \A m \in seperating_set :
                      m # neighbor /\ m # node /\ {node, m} \in graph.edges
        /\ todo_sets' = {}
        /\ pc' = "for_neighbor"

TestedPairAdjacent ==
    pc = "for_set" =>
        {node, neighbor} \in graph.edges /\ {node, neighbor} \notin DOMAIN seperating_sets

C14_RemovalOnlyByTest ==
    /\ []TestedPairAdjacent
    /\ [][RemovalByTest]_vars

C14_Witness ==
    /\ pc = "for_neighbor"
    /\ lim_neighbors = 1
    /\ \E e \in DOMAIN seperating_sets :
           Cardinality(seperating_sets[e]) = 1 /\ node \in e

\* C15: collider detection removes a direction Z -> X only when some Y is
\* non-adjacent to X in the skeleton, Z is adjacent to both X and Y, and Z is
\* not in the separating set of {X, Y}.
RemovedAtCollider ==
    pc = "colliders" =>
        \A e \in pdag \ pdag' :
            \E Y \in graph.nodes :
                /\ Y # e[2]
                /\ ~has_edge(graph, e[2], Y)
                /\ has_edge(graph, e[1], e[2])
                /\ has_edge(graph, e[1], Y)
                /\ e[1] \notin seperating_sets[{e[2], Y}]

C15_OnlyCommonNeighborsOrient == [][RemovedAtCollider]_vars

\* C16: the fixed-point loop of estimate terminates: a pass never adds an
\* edge, a pass that is followed by another pass removed an edge, the loop
\* stops after the first pass that removes none, and every step of the loop
\* decreases the variant OrientRank.
OrientRank ==
    IF pc = "orient" THEN 2 * Cardinality(pdag) + (IF progress THEN 2 ELSE 1) ELSE 0

OrientStep ==
    pc = "orient" =>
        /\ Cardinality(pdag') <= Cardinality(pdag)
        /\ (pc' = "orient" /\ progress') => Cardinality(pdag') < Cardinality(pdag)
        /\ (progress /\ Cardinality(pdag') = Cardinality(pdag)) =>
               (pc' = "orient" /\ ~progress')
        /\ ~progress => (pc' = "done" /\ pdag' = pdag)
        /\ OrientRank' < OrientRank

C16_OrientationTerminates == [][OrientStep]_vars

C16_Witness ==
    /\ pc = "done"
    /\ passes = 1
    /\ ~progress
    /\ \E e \in pdag : <<e[2], e[1]>> \notin pdag

\* C17: during orientation and in the returned PDAG two nodes are joined by
\* an edge of the PDAG if and only if they are adjacent in the skeleton.
C17_AdjacencyKept ==
    pc \in {"colliders", "orient", "done"} =>
        \A a, b \in graph.nodes :
            (<<a, b>> \in pdag \/ <<b, a>> \in pdag) <=> (a # b /\ has_edge(graph, a, b))

\* C18: the cells of a combination z of conditioning values with
\* count(z) = 0 are not among the cells passed to chisquare, and the value
\* returned for a data set with such a combination is not undefined.
C18_UnobservedExcluded ==
    (pc \in {"chisquare", "tci_return"} /\ ~Malformed(call.X, call.Y, Zs_list)) =>
        /\ \A c \in DOMAIN observed : Z_state_counts(XYZ_state_counts, c[3]) # 0
        /\ (/\ pc = "tci_return"
            /\ Cardinality(DOMAIN observed) >= 2
            /\ Cardinality(DOMAIN XYZ_state_counts) > Cardinality(DOMAIN observed))
               => result.p # NaN

\* C19: every call estimate_skeleton makes to the oracle is well-formed: at
\* each candidate of the inner loop, node and neighbor are distinct and
\* adjacent, and the candidate holds neither of them, has lim_neighbors
\* distinct elements (a tuple of that length, so none twice), and holds only
\* nodes adjacent to node.
C19_CallsWellFormed ==
    pc = "for_set" =>
        /\ node # neighbor
        /\ {node, neighbor} \in graph.edges
        /\ \A Zs \in todo_sets :
               /\ node \notin Zs
               /\ neighbor \notin Zs
               /\ Cardinality(Zs) = lim_neighbors
               /\ \A Z \in Zs : {node, Z} \in graph.edges
               /\ <<node, neighbor, Zs>> \in DOMAIN oracle

C19_Witness ==
    /\ pc = "for_set"
    /\ lim_neighbors >= 1
    /\ Cardinality(todo_sets) >= 1
    /\ Cardinality(DOMAIN seperating_sets) >= 1
====
